---- MODULE Spec2Model ----
(***************************************************************************)
(* Stock / sale reconciliation of the shoe-store inventory tracker.        *)
(*                                                                         *)
(* The state is the React state of App (stocks, sales, the sale dialog),   *)
(* the local state of SaleModal (error, isCompleted, lastRecords), the two *)
(* localStorage keys the persistence effects write, and the last message   *)
(* shown with alert().  Every handler is one action: the handler, the      *)
(* state updates it queues, and the persistence effects that React runs    *)
(* after the resulting render.                                             *)
(*                                                                         *)
(* Numbers are integers (the quantity and price inputs are number inputs;  *)
(* getNumber/parseFloat and Number() are the identity on them).            *)
(* Descriptive metadata that no operation reads (name, description,        *)
(* imageUrl) is left out of the records; the category field of the stock   *)
(* form is left as loaded except in SpecCharts.  Time is counted in        *)
(* quarter days on a small calendar; the clock stands still except in      *)
(* SpecToday.  The pages (view, stockToEdit, the browser history) are      *)
(* followed in SpecNav; the steps of the other specifications are taken    *)
(* without the navigation that leads to their page and back.               *)
(***************************************************************************)
EXTENDS Integers, Sequences, FiniteSets, TLC

VARIABLES
    stocks,                 \* App: useState<StockItem[]>
    sales,                  \* App: useState<SaleRecord[]>
    selectedStockForSale,   \* App: the StockItem handed to the dialog, or NoStock
    isSaleModalOpen,        \* App
    error,                  \* SaleModal: the message under the form
    isCompleted,            \* SaleModal: receipt view shown
    lastRecords,            \* SaleModal: records of the sale just confirmed
    nextStockId,            \* generateId(): ids handed out so far (items)
    nextVariantId,          \* generateId(): ids handed out so far (variants)
    nextSaleId,             \* crypto.randomUUID(): ids handed out so far (sales)
    storedStocks,           \* localStorage['shoe-store-stocks']
    storedSales,            \* localStorage['shoe-store-sales']
    storageTight,           \* environment: setItem may throw QuotaExceededError
    failedWrites,           \* environment: setItem calls that threw so far
    restarts,               \* environment: times the page was opened again
    lastAlert,              \* the last alert() shown to the operator
    clock,                  \* environment: the instant, in quarter days since the epoch
    timezoneOffset,         \* environment: local time minus UTC, in quarter days
    view,                   \* App: the page shown
    stockToEdit,            \* App: the item loaded into the stock form, or NoStock
    history                 \* window.history: the states of the entries up to the present one

vars == <<stocks, sales, selectedStockForSale, isSaleModalOpen, error, isCompleted,
          lastRecords, nextStockId, nextVariantId, nextSaleId, storedStocks,
          storedSales, storageTight,
          failedWrites, restarts, lastAlert, clock, timezoneOffset,
          view, stockToEdit, history>>

(***************************************************************************)
(* Bounds of the model.                                                    *)
(***************************************************************************)
MaxStocks == 2          \* stock items ever created
MaxVariantIds == 2      \* variant rows ever created
MaxSales == 2           \* sale records ever created
MaxRows == 2            \* variant rows in one stock form
MaxLines == 2           \* lines in one sale dialog
MaxQty == 2             \* largest quantity typed into a form
MaxFailedWrites == 1    \* storage writes that fail
MaxRestarts == 1        \* restarts of the page
MaxClock == 11          \* the last instant of the clock
QuartersPerDay == 4     \* instants of a day: 00:00, 06:00, 12:00 and 18:00 to 23:59
DaysPerMonth == 2       \* days of a month of the calendar
MonthsPerYear == 2      \* months of a year of the calendar
MaxHistory == 3         \* entries of the browser history the app goes back through
MaxOffset == 2          \* local time from UTC-12:00 to UTC+12:00

\* The empty variantId ('' in the source).
EmptyId == 0

\* Dashboard.trendData: the days of the profit trend
TrendDays == 7

NoStock == [id |-> EmptyId]

Sizes == {"38"}
Colors == {"black"}
Costs == {100, 150}
Prices == {200}
FormQtys == 0 .. MaxQty
LineQtys == -1 .. MaxQty

(***************************************************************************)
(* Helpers over sequences.                                                 *)
(***************************************************************************)
Range(s) == {s[i] : i \in DOMAIN s}

RECURSIVE SumQuantity(_)
\* variants.reduce((sum, v) => sum + v.quantity, 0)
SumQuantity(vs) ==
    IF vs = <<>> THEN 0 ELSE Head(vs).quantity + SumQuantity(Tail(vs))

Max(a, b) == IF a >= b THEN a ELSE b

\* Array.prototype.find: the first element of s among the positions `hits`
\* (those satisfying the callback), as a sequence of length 0 (undefined) or 1.
\* Array.prototype.map is written [i \in DOMAIN s |-> ...] and filter SelectSeq.
Find(s, hits) ==
    IF hits = {} THEN <<>>
    ELSE <<s[CHOOSE i \in hits : \A j \in hits : i <= j]>>

\* variants.find(v => v.id === id)
FindVariant(variants, id) ==
    Find(variants, {i \in DOMAIN variants : variants[i].id = id})

(***************************************************************************)
(* Records.                                                                *)
(*   StockVariant: [id, size, color, quantity]                             *)
(*   StockItem:    [id, unitCost, initialQuantity, currentQuantity,        *)
(*                  totalCost, purchaseDate, hasVariants, variants]        *)
(*     hasVariants = FALSE is an item whose `variants` is undefined        *)
(*     (data written before variants existed); variants is then <<>>.      *)
(*   SaleRecord:   [id, stockId, variantId, size, color, quantitySold,     *)
(*                  salePricePerUnit, saleDate, totalRevenue, profit]      *)
(*   PriceEntry:   [variantId, quantity, price]                            *)
(***************************************************************************)

\* Date.prototype.toISOString: the UTC calendar fields of an instant, the
\* month written from 1
toISOString(t) ==
    LET day == t \div QuartersPerDay
        month == day \div DaysPerMonth
    IN  [year    |-> month \div MonthsPerYear,
         month   |-> (month % MonthsPerYear) + 1,
         date    |-> (day % DaysPerMonth) + 1,
         quarter |-> t % QuartersPerDay]

\* new Date(isoString): the instant of an ISO string
NewDate(iso) ==
    ((iso.year * MonthsPerYear + (iso.month - 1)) * DaysPerMonth + (iso.date - 1))
        * QuartersPerDay + iso.quarter

\* getFullYear, getMonth (from 0) and getDate (from 1) in the device's zone
getFullYear(t, offset) ==
    ((t + offset) \div QuartersPerDay) \div (DaysPerMonth * MonthsPerYear)
getMonth(t, offset) ==
    (((t + offset) \div QuartersPerDay) \div DaysPerMonth) % MonthsPerYear
\* getDate that reads the UTC day
getDate_UTC(t, offset) == ((t \div QuartersPerDay) % DaysPerMonth) + 1
getDate(t, offset) == (((t + offset) \div QuartersPerDay) % DaysPerMonth) + 1

\* item.variants?. ... : the rows of an item, none when variants is undefined
VariantsOf(item) == IF item.hasVariants THEN item.variants ELSE <<>>

\* stocks.find(s => s.id === id)
FindStock(list, id) == Find(list, {i \in DOMAIN list : list[i].id = id})

(***************************************************************************)
(* SaleModal                                                               *)
(***************************************************************************)
NoError == "none"
InsufficientStock == "insufficient stock"
EmptySale == "no valid line"

RECURSIVE RequestedStock(_, _)
\* validateStock, first loop: requestedStock[vId], the sum of getNumber(quantity)
\* over the entries naming vId
RequestedStock(entries, vId) ==
    IF entries = <<>> THEN 0
    ELSE (IF Head(entries).variantId = vId THEN Head(entries).quantity ELSE 0)
         + RequestedStock(Tail(entries), vId)

\* validateStock: every requested variant exists and holds the requested sum
validateStock(stock, entries) ==
    \A vId \in {e.variantId : e \in Range(entries)} \ {EmptyId} :
        LET variant == FindVariant(VariantsOf(stock), vId)
        IN  /\ variant # <<>>
            /\ ~(RequestedStock(entries, vId) > variant[1].quantity)

\* validEntries that keeps every line
validEntries_All(entries) == entries

\* handleSubmit: entries.filter(e => getNumber(e.quantity) > 0 && e.variantId)
validEntries(entries) ==
    SelectSeq(entries, LAMBDA e : e.quantity > 0 /\ e.variantId # EmptyId)

\* NewRecord that books the whole revenue as profit and no size or color
NewRecord_NoCost(stock, entry, id) ==
    [id               |-> id,
     stockId          |-> stock.id,
     variantId        |-> entry.variantId,
     size             |-> "Unknown",
     color            |-> "Unknown",
     quantitySold     |-> entry.quantity,
     salePricePerUnit |-> entry.price,
     saleDate         |-> toISOString(clock),
     totalRevenue     |-> entry.quantity * entry.price,
     profit           |-> entry.price * entry.quantity]

\* handleSubmit: the SaleRecord of one valid entry; firstId + i is its fresh id
NewRecord(stock, entry, id) ==
    LET variant == FindVariant(VariantsOf(stock), entry.variantId)
    IN  [id               |-> id,
         stockId          |-> stock.id,
         variantId        |-> entry.variantId,
         size             |-> IF variant # <<>> THEN variant[1].size ELSE "Unknown",
         color            |-> IF variant # <<>> THEN variant[1].color ELSE "Unknown",
         quantitySold     |-> entry.quantity,
         salePricePerUnit |-> entry.price,
         saleDate         |-> toISOString(clock),
         totalRevenue     |-> entry.quantity * entry.price,
         profit           |-> (entry.price - stock.unitCost) * entry.quantity]

\* NewRecords that records the first valid line only
NewRecords_FirstLine(stock, valid, firstId) ==
    [i \in DOMAIN valid \cap {1} |-> NewRecord(stock, valid[i], firstId + i)]

\* handleSubmit: validEntries.map(entry => ({...}))
NewRecords(stock, valid, firstId) ==
    [i \in DOMAIN valid |-> NewRecord(stock, valid[i], firstId + i)]

(***************************************************************************)
(* App: reconciliation                                                     *)
(***************************************************************************)

\* ConfirmSaleItem without Math.max(0, ...)
ConfirmSaleItem_NoClamp(item, newRecords) ==
    LET old == VariantsOf(item)
        updatedVariants ==
            [i \in DOMAIN old |->
                LET variant == old[i]
                    saleForVariant ==
                        Find(newRecords, {j \in DOMAIN newRecords :
                                             newRecords[j].variantId = variant.id})
                IN  IF saleForVariant # <<>>
                    THEN [variant EXCEPT !.quantity =
                              variant.quantity - saleForVariant[1].quantitySold]
                    ELSE variant]
    IN  [item EXCEPT !.hasVariants = TRUE,
                     !.variants = updatedVariants,
                     !.currentQuantity = SumQuantity(updatedVariants)]

\* handleConfirmSale, the body of prev.map for the item sold
ConfirmSaleItem(item, newRecords) ==
    LET old == VariantsOf(item)
        updatedVariants ==
            [i \in DOMAIN old |->
                LET variant == old[i]
                    saleForVariant ==
                        Find(newRecords, {j \in DOMAIN newRecords :
                                             newRecords[j].variantId = variant.id})
                IN  IF saleForVariant # <<>>
                    THEN [variant EXCEPT !.quantity =
                              Max(0, variant.quantity - saleForVariant[1].quantitySold)]
                    ELSE variant]
    IN  [item EXCEPT !.hasVariants = TRUE,
                     !.variants = updatedVariants,
                     !.currentQuantity = SumQuantity(updatedVariants)]

\* ConfirmSaleStocks that lists the item just sold first
ConfirmSaleStocks_SoldFirst(prev, newRecords) ==
    SelectSeq([i \in DOMAIN prev |-> ConfirmSaleItem(prev[i], newRecords)],
              LAMBDA item : item.id = newRecords[1].stockId)
    \o SelectSeq(prev, LAMBDA item : item.id # newRecords[1].stockId)

\* handleConfirmSale: setStocks(prev => prev.map(...))
ConfirmSaleStocks(prev, newRecords) ==
    [i \in DOMAIN prev |->
        IF prev[i].id = newRecords[1].stockId
        THEN ConfirmSaleItem(prev[i], newRecords) ELSE prev[i]]

\* ConfirmSaleSales that starts the ledger over with the new records
ConfirmSaleSales_NewOnly(prev, newRecords) == newRecords

\* handleConfirmSale: setSales(prev => [...newRecords, ...prev])
ConfirmSaleSales(prev, newRecords) == newRecords \o prev

\* RefundItem that restores the variant and keeps the stored total
RefundItem_StaleTotal(item, sale) ==
    LET old == VariantsOf(item)
    IN  [item EXCEPT !.variants =
            [i \in DOMAIN old |->
                IF old[i].id = sale.variantId
                THEN [old[i] EXCEPT !.quantity = old[i].quantity + sale.quantitySold]
                ELSE old[i]]]

\* handleRefund, the body of prev.map for the item refunded
RefundItem(item, sale) ==
    IF item.hasVariants
    THEN LET updatedVariants ==
                 [i \in DOMAIN item.variants |->
                     LET variant == item.variants[i]
                     IN  IF variant.id = sale.variantId
                         THEN [variant EXCEPT !.quantity =
                                   variant.quantity + sale.quantitySold]
                         ELSE variant]
         IN  [item EXCEPT !.variants = updatedVariants,
                          !.currentQuantity = SumQuantity(updatedVariants)]
    ELSE [item EXCEPT !.currentQuantity = item.currentQuantity + sale.quantitySold]

\* handleRefund: setStocks(prev => prev.map(...)), run only when the item exists
RefundStocks(prev, sale) ==
    IF FindStock(prev, sale.stockId) # <<>>
    THEN [i \in DOMAIN prev |->
             IF prev[i].id = sale.stockId THEN RefundItem(prev[i], sale) ELSE prev[i]]
    ELSE prev

\* RefundSales that drops the record only while its stock item exists
RefundSales_OnlyWithStock(prev, sale) ==
    IF FindStock(stocks, sale.stockId) # <<>>
    THEN SelectSeq(prev, LAMBDA s : s.id # sale.id)
    ELSE prev

\* handleRefund: setSales(prev => prev.filter(s => s.id !== sale.id))
RefundSales(prev, sale) == SelectSeq(prev, LAMBDA s : s.id # sale.id)

(***************************************************************************)
(* StockForm                                                               *)
(***************************************************************************)

\* new Date().toISOString() when the item is bought, and at any later submit
PurchaseDay == "day of purchase"
LaterDay == "a later day"

\* ItemData that stamps the item anew and counts the stock as bought again
ItemData_StartsOver(initialData, id, category, unitCost, variants, now) ==
    LET totalQuantity == SumQuantity(variants)
    IN  [id              |-> IF initialData # <<>> THEN initialData[1].id ELSE id,
         category        |-> category,
         unitCost        |-> unitCost,
         initialQuantity |-> totalQuantity,
         currentQuantity |-> totalQuantity,
         totalCost       |-> totalQuantity * unitCost,
         purchaseDate    |-> now,
         hasVariants     |-> TRUE,
         variants        |-> variants]

\* handleSubmit: the StockItem built from the form.  initialData is <<>> for a
\* new item and <<item>> when editing; id is the fresh id of a new item and
\* now the day of the submit.
ItemData(initialData, id, category, unitCost, variants, now) ==
    LET totalQuantity == SumQuantity(variants)
        calculatedTotalCost == totalQuantity * unitCost
    IN  [id              |-> IF initialData # <<>> THEN initialData[1].id ELSE id,
         category        |-> category,
         unitCost        |-> unitCost,
         initialQuantity |-> IF initialData # <<>>
                             THEN initialData[1].initialQuantity ELSE totalQuantity,
         currentQuantity |-> totalQuantity,
         totalCost       |-> calculatedTotalCost,
         purchaseDate    |-> IF initialData # <<>>
                             THEN initialData[1].purchaseDate ELSE now,
         hasVariants     |-> TRUE,
         variants        |-> variants]

\* handleAddStock: setStocks(prev => [newItem, ...prev])
AddStock(prev, newItem) == <<newItem>> \o prev

\* handleUpdateStock: setStocks(prev => prev.map(item => item.id === id ? updated : item))
UpdateStock(prev, updatedItem) ==
    [i \in DOMAIN prev |-> IF prev[i].id = updatedItem.id THEN updatedItem ELSE prev[i]]

\* handleDeleteStock: setStocks(prev => prev.filter(s => s.id !== id))
DeleteStock(prev, id) == SelectSeq(prev, LAMBDA s : s.id # id)

(***************************************************************************)
(* Inputs                                                                  *)
(***************************************************************************)

\* Sequences over S of length lo .. hi
SeqsOf(S, lo, hi) == UNION {[1 .. n -> S] : n \in lo .. hi}

\* StockForm: useState('') for the category
NoCategory == ""

\* What the operator types into the category field
Categories == {"Sneaker", "Boot"}

\* What the operator types into one row of the stock form
RowInputs == [size : Sizes, color : Colors, quantity : FormQtys]

\* The rows of a new item get fresh ids firstId + 1, firstId + 2, ...
FreshRows(inputs, firstId) ==
    [i \in DOMAIN inputs |->
        [id |-> firstId + i, size |-> inputs[i].size, color |-> inputs[i].color,
         quantity |-> inputs[i].quantity]]

\* The rows of an edited item: the rows kept (handleRemoveVariant removed the
\* others) as retyped with updateVariant, then the rows added with
\* handleAddVariant.  retyped is a function from the kept indices to RowInputs.
EditedRows(old, retyped, added, firstId) ==
    LET keptIdx == SelectSeq([i \in DOMAIN old |-> i], LAMBDA i : i \in DOMAIN retyped)
    IN  [k \in DOMAIN keptIdx |->
            [id |-> old[keptIdx[k]].id, size |-> retyped[keptIdx[k]].size,
             color |-> retyped[keptIdx[k]].color,
             quantity |-> retyped[keptIdx[k]].quantity]]
        \o FreshRows(added, firstId)

\* What the operator leaves in the rows kept in an edit: size and color
\* retyped, the quantity as it was (stock is adjusted by removing and adding
\* rows)
RetypedRows(old, kept) ==
    {[i \in kept |-> [size |-> f[i].size, color |-> f[i].color,
                      quantity |-> old[i].quantity]] :
        f \in [kept -> [size : Sizes, color : Colors]]}

\* The lines the operator can have typed into the sale dialog of `stock`
EntryInputs(stock) ==
    SeqsOf([variantId : {v.id : v \in Range(VariantsOf(stock))} \cup {EmptyId},
            quantity : LineQtys, price : Prices], 1, MaxLines)

(***************************************************************************)
(* Persistence effects                                                     *)
(***************************************************************************)

\* saveToStorage: the value of the key after the call; setItem either stores
\* the data or throws (caught, the key keeps its old value)
saveToStorage(old, data, ok) == IF ok THEN data ELSE old

\* The outcomes of a setItem call: it can throw QuotaExceededError when the
\* storage is tight
SaveOutcomes(called) == IF called /\ storageTight THEN BOOLEAN ELSE {TRUE}

Failed(ok) == IF ok THEN 0 ELSE 1

\* The two useEffect hooks, run after the render that follows a handler:
\* [stocks] first, then [sales]; each runs when its state was set
PersistenceEffects(stocksSet, salesSet) ==
    \E okStocks \in SaveOutcomes(stocksSet), okSales \in SaveOutcomes(salesSet) :
        /\ failedWrites + Failed(okStocks) + Failed(okSales) <= MaxFailedWrites
        /\ failedWrites' = failedWrites + Failed(okStocks) + Failed(okSales)
        /\ storedStocks' = IF stocksSet
                           THEN saveToStorage(storedStocks, stocks', okStocks)
                           ELSE storedStocks
        /\ storedSales' = IF salesSet
                          THEN saveToStorage(storedSales, sales', okSales)
                          ELSE storedSales

modalVars == <<error, isCompleted, lastRecords>>
dialogVars == <<selectedStockForSale, isSaleModalOpen>>
idVars == <<nextStockId, nextVariantId, nextSaleId>>
storageVars == <<storedStocks, storedSales, failedWrites>>
clockVars == <<clock, timezoneOffset>>
envVars == <<storageTight, restarts, clock, timezoneOffset>>
navVars == <<view, stockToEdit, history>>

\* AppView | 'settings'
Views == {"dashboard", "inventory", "add-stock", "sales-history", "settings"}

\* A history state without a view
NoView == "none"

\* { view: 'dashboard' }
DashboardEntry == [view |-> "dashboard"]

\* { modal: 'sale' }
ModalEntry == [view |-> NoView]

\* window.history.pushState(state, '', '')
PushState(entries, state) == Append(entries, state)

\* window.history.replaceState(state, '', '')
ReplaceState(entries, state) == [entries EXCEPT ![Len(entries)] = state]

\* alert() blocks until dismissed: lastAlert is the message the latest handler
\* showed, NoAlert when it showed none
NoAlert == "none"

(***************************************************************************)
(* Initial state: first start, nothing in localStorage.                    *)
(***************************************************************************)
InitApp ==
    /\ stocks = <<>>
    /\ sales = <<>>
    /\ selectedStockForSale = NoStock
    /\ isSaleModalOpen = FALSE
    /\ error = NoError
    /\ isCompleted = FALSE
    /\ lastRecords = <<>>
    /\ nextStockId = 0
    /\ nextVariantId = 0
    /\ nextSaleId = 0
    /\ storedStocks = <<>>
    /\ storedSales = <<>>
    /\ storageTight = FALSE
    /\ failedWrites = 0
    /\ restarts = 0
    /\ lastAlert = NoAlert
    /\ view = "dashboard"
    /\ stockToEdit = NoStock
    /\ history = <<DashboardEntry>>

\* The clock stands at the epoch and the device is on UTC
Init ==
    /\ InitApp
    /\ clock = 0
    /\ timezoneOffset = 0

(***************************************************************************)
(* Actions.  The sale dialog covers the page while it is open, so the      *)
(* other handlers are reachable only when it is closed.                    *)
(***************************************************************************)

\* App.navigateTo(newView)
navigateTo(newView) ==
    IF view # newView
    THEN /\ Len(history) < MaxHistory
         /\ history' = PushState(history, [view |-> newView])
         /\ view' = newView
         /\ stockToEdit' = IF newView # "add-stock" THEN NoStock ELSE stockToEdit
    ELSE UNCHANGED navVars

\* App.handleAddStock(newItem)
handleAddStock(newItem) ==
    /\ stocks' = AddStock(stocks, newItem)
    /\ sales' = sales
    /\ PersistenceEffects(TRUE, FALSE)

\* handleUpdateStock that also re-prices the item's records at the new cost
handleUpdateStock_Reprices(updatedItem) ==
    /\ stocks' = UpdateStock(stocks, updatedItem)
    /\ sales' = [i \in DOMAIN sales |->
                    IF sales[i].stockId = updatedItem.id
                    THEN [sales[i] EXCEPT !.profit =
                             (sales[i].salePricePerUnit - updatedItem.unitCost)
                                 * sales[i].quantitySold]
                    ELSE sales[i]]
    /\ PersistenceEffects(TRUE, TRUE)

\* App.handleUpdateStock(updatedItem)
handleUpdateStock(updatedItem) ==
    /\ stocks' = UpdateStock(stocks, updatedItem)
    /\ sales' = sales
    /\ PersistenceEffects(TRUE, FALSE)

\* handleConfirmSale that takes the sale back when a write fails
handleConfirmSale_RollsBack(newRecords) ==
    IF Len(newRecords) = 0
    THEN UNCHANGED <<stocks, sales, storageVars>>
    ELSE \/ /\ storageTight
            /\ failedWrites < MaxFailedWrites
            /\ failedWrites' = failedWrites + 1
            /\ UNCHANGED <<stocks, sales, storedStocks, storedSales>>
         \/ /\ ~storageTight
            /\ sales' = ConfirmSaleSales(sales, newRecords)
            /\ stocks' = ConfirmSaleStocks(stocks, newRecords)
            /\ PersistenceEffects(TRUE, TRUE)

\* App.handleConfirmSale(newRecords)
handleConfirmSale(newRecords) ==
    IF Len(newRecords) = 0
    THEN UNCHANGED <<stocks, sales, storageVars>>
    ELSE /\ sales' = ConfirmSaleSales(sales, newRecords)
         /\ stocks' = ConfirmSaleStocks(stocks, newRecords)
         /\ PersistenceEffects(TRUE, TRUE)

\* SubmitNewStock without the test of the total quantity
SubmitNewStock_AcceptsEmpty(category, unitCost, inputs) ==
    /\ ~isSaleModalOpen
    /\ nextStockId < MaxStocks
    /\ nextVariantId + Len(inputs) <= MaxVariantIds
    /\ handleAddStock(ItemData(<<>>, nextStockId + 1, category, unitCost,
                              FreshRows(inputs, nextVariantId), PurchaseDay))
    /\ nextStockId' = nextStockId + 1
    /\ nextVariantId' = nextVariantId + Len(inputs)
    /\ lastAlert' = NoAlert
    /\ UNCHANGED nextSaleId
    /\ UNCHANGED <<dialogVars, modalVars, envVars>>

\* StockForm.handleSubmit without initialData
SubmitNewStock(category, unitCost, inputs) ==
    /\ ~isSaleModalOpen
    /\ nextStockId < MaxStocks
    /\ nextVariantId + Len(inputs) <= MaxVariantIds
    /\ LET variants == FreshRows(inputs, nextVariantId)
       IN  IF SumQuantity(variants) = 0
           THEN /\ lastAlert' = "add at least one unit"
                /\ UNCHANGED <<stocks, sales, idVars, storageVars>>
           ELSE /\ handleAddStock(ItemData(<<>>, nextStockId + 1, category, unitCost,
                                         variants, PurchaseDay))
                /\ nextStockId' = nextStockId + 1
                /\ nextVariantId' = nextVariantId + Len(inputs)
                /\ lastAlert' = NoAlert
                /\ UNCHANGED nextSaleId
    /\ UNCHANGED <<dialogVars, modalVars, envVars>>

\* App.handleEditStockRequest(stock), then StockForm.handleSubmit with
\* initialData = stock.  The form replaces the inventory page, so the item
\* cannot change between the request and the submit.
SubmitEditedStock(stock, category, unitCost, retyped, added) ==
    /\ ~isSaleModalOpen
    /\ nextVariantId + Len(added) <= MaxVariantIds
    /\ LET old == IF stock.hasVariants /\ Len(stock.variants) > 0
                  THEN stock.variants
                  ELSE <<>>
           variants == EditedRows(old, retyped, added, nextVariantId)
       IN  /\ Len(variants) >= 1
           /\ Len(variants) <= MaxRows
           /\ IF SumQuantity(variants) = 0
              THEN /\ lastAlert' = "add at least one unit"
                   /\ UNCHANGED <<stocks, sales, nextVariantId, storageVars>>
              ELSE /\ handleUpdateStock(ItemData(<<stock>>, EmptyId, category, unitCost,
                                               variants, LaterDay))
                   /\ nextVariantId' = nextVariantId + Len(added)
                   /\ lastAlert' = NoAlert
    /\ UNCHANGED <<nextStockId, nextSaleId, dialogVars, modalVars, envVars>>

\* handleDeleteStock that also drops the records of the deleted item
handleDeleteStock_Cascades(id) ==
    /\ ~isSaleModalOpen
    /\ stocks' = DeleteStock(stocks, id)
    /\ sales' = SelectSeq(sales, LAMBDA r : r.stockId # id)
    /\ PersistenceEffects(TRUE, TRUE)
    /\ lastAlert' = NoAlert
    /\ UNCHANGED <<dialogVars, modalVars, idVars, envVars>>

\* App.handleDeleteStock(id), confirmed
handleDeleteStock(id) ==
    /\ ~isSaleModalOpen
    /\ stocks' = DeleteStock(stocks, id)
    /\ PersistenceEffects(TRUE, FALSE)
    /\ lastAlert' = NoAlert
    /\ UNCHANGED <<sales, dialogVars, modalVars, idVars, envVars>>

\* App.openSaleModal(stock) from the inventory list (the button is disabled
\* when currentQuantity is 0), and the SaleModal effect on [stock, isOpen]
openSaleModal(stock) ==
    /\ ~isSaleModalOpen
    /\ stock.currentQuantity # 0
    /\ selectedStockForSale' = stock
    /\ isSaleModalOpen' = TRUE
    /\ error' = NoError
    /\ isCompleted' = FALSE
    /\ lastRecords' = <<>>
    /\ lastAlert' = NoAlert
    /\ UNCHANGED <<stocks, sales, idVars, storageVars, envVars>>

\* App.closeSaleModal, or the back button (handlePopState) while the dialog
\* is open.  SaleModal renders nothing while closed and its effect on
\* [stock, isOpen] re-initialises error, isCompleted and lastRecords before it
\* shows again, so its state is taken to its initial value here.
closeSaleModal ==
    /\ isSaleModalOpen
    /\ isSaleModalOpen' = FALSE
    /\ selectedStockForSale' = NoStock
    /\ error' = NoError
    /\ isCompleted' = FALSE
    /\ lastRecords' = <<>>
    /\ lastAlert' = NoAlert
    /\ UNCHANGED <<stocks, sales, idVars, storageVars, envVars>>

\* handleSubmit of a dialog without the receipt view: the form stays on screen
\* after a sale, over the item as it was when the dialog opened
handleSubmit_NoReceipt(entries) ==
    /\ isSaleModalOpen
    /\ selectedStockForSale # NoStock
    /\ LET stock == selectedStockForSale
           valid == validEntries(entries)
           newRecords == NewRecords(stock, valid, nextSaleId)
       IN  IF ~validateStock(stock, entries)
           THEN /\ error' = InsufficientStock
                /\ UNCHANGED <<stocks, sales, nextSaleId, storageVars>>
           ELSE IF Len(valid) = 0
           THEN /\ error' = EmptySale
                /\ UNCHANGED <<stocks, sales, nextSaleId, storageVars>>
           ELSE /\ nextSaleId + Len(valid) <= MaxSales
                /\ error' = NoError
                /\ handleConfirmSale(newRecords)
                /\ nextSaleId' = nextSaleId + Len(valid)
    /\ lastAlert' = NoAlert
    /\ UNCHANGED <<isCompleted, lastRecords, dialogVars, nextStockId, nextVariantId,
                   envVars>>

\* handleSubmit without the `return` after the stock check: the message is set
\* and the valid lines are sold all the same
handleSubmit_NoReturn(entries) ==
    /\ isSaleModalOpen
    /\ selectedStockForSale # NoStock
    /\ ~isCompleted
    /\ LET stock == selectedStockForSale
           valid == validEntries(entries)
           newRecords == NewRecords(stock, valid, nextSaleId)
       IN  IF Len(valid) = 0
           THEN /\ error' = EmptySale
                /\ UNCHANGED <<stocks, sales, isCompleted, lastRecords, nextSaleId,
                               storageVars>>
           ELSE /\ nextSaleId + Len(valid) <= MaxSales
                /\ error' = IF validateStock(stock, entries)
                            THEN NoError ELSE InsufficientStock
                /\ handleConfirmSale(newRecords)
                /\ lastRecords' = newRecords
                /\ isCompleted' = TRUE
                /\ nextSaleId' = nextSaleId + Len(valid)
    /\ lastAlert' = NoAlert
    /\ UNCHANGED <<dialogVars, nextStockId, nextVariantId, envVars>>

\* SaleModal.handleSubmit with `entries` typed in
handleSubmit(entries) ==
    /\ isSaleModalOpen
    /\ selectedStockForSale # NoStock
    /\ ~isCompleted
    /\ LET stock == selectedStockForSale
           valid == validEntries(entries)
           newRecords == NewRecords(stock, valid, nextSaleId)
       IN  IF ~validateStock(stock, entries)
           THEN /\ error' = InsufficientStock
                /\ UNCHANGED <<stocks, sales, isCompleted, lastRecords, nextSaleId,
                               storageVars>>
           ELSE IF Len(valid) = 0
           THEN /\ error' = EmptySale
                /\ UNCHANGED <<stocks, sales, isCompleted, lastRecords, nextSaleId,
                               storageVars>>
           ELSE /\ nextSaleId + Len(valid) <= MaxSales
                /\ error' = NoError
                /\ handleConfirmSale(newRecords)
                /\ lastRecords' = newRecords
                /\ isCompleted' = TRUE
                /\ nextSaleId' = nextSaleId + Len(valid)
    /\ lastAlert' = NoAlert
    /\ UNCHANGED <<dialogVars, nextStockId, nextVariantId, envVars>>

\* App.handleRefund(sale) from the sales history, confirmed
handleRefund(sale) ==
    /\ ~isSaleModalOpen
    /\ sales' = RefundSales(sales, sale)
    /\ IF FindStock(stocks, sale.stockId) # <<>>
       THEN /\ stocks' = RefundStocks(stocks, sale)
            /\ lastAlert' = "refunded, stock restored"
            /\ PersistenceEffects(TRUE, TRUE)
       ELSE /\ stocks' = stocks
            /\ lastAlert' = "refunded, item was deleted"
            /\ PersistenceEffects(FALSE, TRUE)
    /\ UNCHANGED <<dialogVars, modalVars, idVars, envVars>>

\* App.handleRefund(sale) invoked a second time for the same record by the
\* handler of the same render (a second click dispatched before the history is
\* drawn again): both calls read `stocks` of that render, and their updaters
\* run one after the other on the latest state.  The second call is a refund
\* of a record that is no longer in the ledger.
handleRefundTwice(sale) ==
    /\ ~isSaleModalOpen
    /\ sales' = RefundSales(RefundSales(sales, sale), sale)
    /\ IF FindStock(stocks, sale.stockId) # <<>>
       THEN /\ stocks' = RefundStocks(RefundStocks(stocks, sale), sale)
            /\ lastAlert' = "refunded, stock restored"
            /\ PersistenceEffects(TRUE, TRUE)
       ELSE /\ stocks' = stocks
            /\ lastAlert' = "refunded, item was deleted"
            /\ PersistenceEffects(FALSE, TRUE)
    /\ UNCHANGED <<dialogVars, modalVars, idVars, envVars>>

\* handlePopState that changes the page before it looks at the dialog
handlePopState_ViewFirst(state) ==
    /\ view' = IF state.view # NoView THEN state.view ELSE "dashboard"
    /\ stockToEdit' = IF state.view = "add-stock" THEN stockToEdit ELSE NoStock
    /\ isSaleModalOpen' = FALSE
    /\ selectedStockForSale' = NoStock

\* App.handlePopState(event) with event.state = state; the listener is set up
\* again whenever isSaleModalOpen changes, so it reads the present value
handlePopState(state) ==
    IF isSaleModalOpen
    THEN /\ isSaleModalOpen' = FALSE
         /\ selectedStockForSale' = NoStock
         /\ UNCHANGED <<view, stockToEdit>>
    ELSE /\ IF state.view # NoView
            THEN /\ view' = state.view
                 /\ stockToEdit' = IF state.view # "add-stock"
                                   THEN NoStock ELSE stockToEdit
            ELSE /\ view' = "dashboard"
                 /\ stockToEdit' = NoStock
         /\ UNCHANGED dialogVars

\* window.history.back() or the back button, inside the entries of the app:
\* the entry before becomes the present one and popstate carries its state.
\* When the dialog closes the navigation effect runs again and its
\* replaceState({ view: 'dashboard' }) rewrites the present entry.
historyBack ==
    /\ Len(history) > 1
    /\ history' = IF isSaleModalOpen
                  THEN ReplaceState(SubSeq(history, 1, Len(history) - 1), DashboardEntry)
                  ELSE SubSeq(history, 1, Len(history) - 1)
    /\ handlePopState(history[Len(history) - 1])

\* App.handleEditStockRequest(stock) from the inventory page
handleEditStockRequest(stock) ==
    /\ Len(history) < MaxHistory
    /\ stockToEdit' = stock
    /\ history' = PushState(history, [view |-> "add-stock"])
    /\ view' = "add-stock"

(***************************************************************************)
(* Backup documents offered to handleFileImport.                           *)
(*   [parses, stocksIsArray, stocks, hasSales, sales]                      *)
(***************************************************************************)
\* A backup exported earlier by handleExportData from this store: the first
\* item, bought as 2 units at cost 100, after the sale of 1 unit at price 200
BackupItem ==
    [id |-> 1, category |-> NoCategory, unitCost |-> 100,
     initialQuantity |-> 2, currentQuantity |-> 1,
     totalCost |-> 200, purchaseDate |-> PurchaseDay, hasVariants |-> TRUE,
     variants |-> <<[id |-> 1, size |-> "38", color |-> "black", quantity |-> 1]>>]

BackupSale ==
    [id |-> 1, stockId |-> 1, variantId |-> 1, size |-> "38", color |-> "black",
     quantitySold |-> 1, salePricePerUnit |-> 200, saleDate |-> toISOString(0),
     totalRevenue |-> 200, profit |-> 100]

BackupDoc ==
    [parses |-> TRUE, stocksIsArray |-> TRUE, stocks |-> <<BackupItem>>,
     hasSales |-> TRUE, sales |-> <<BackupSale>>]

\* { "stocks": [] }
EmptyDoc ==
    [parses |-> TRUE, stocksIsArray |-> TRUE, stocks |-> <<>>,
     hasSales |-> FALSE, sales |-> <<>>]

\* JSON without a `stocks` array
MalformedDoc ==
    [parses |-> TRUE, stocksIsArray |-> FALSE, stocks |-> <<>>,
     hasSales |-> TRUE, sales |-> <<BackupSale>>]

\* not JSON
CorruptDoc ==
    [parses |-> FALSE, stocksIsArray |-> FALSE, stocks |-> <<>>,
     hasSales |-> FALSE, sales |-> <<>>]

\* JSON.stringify of a StockItem: a key whose value is undefined is left out
StringifyItem(item) ==
    [k \in {"id", "category", "unitCost", "initialQuantity", "currentQuantity", "totalCost",
            "purchaseDate"}
            \cup (IF item.hasVariants THEN {"variants"} ELSE {}) |-> item[k]]

\* JSON.parse of a StockItem: a key that is absent reads as undefined
ParseItem(obj) ==
    [id              |-> obj.id,
     category        |-> obj.category,
     unitCost        |-> obj.unitCost,
     initialQuantity |-> obj.initialQuantity,
     currentQuantity |-> obj.currentQuantity,
     totalCost       |-> obj.totalCost,
     purchaseDate    |-> obj.purchaseDate,
     hasVariants     |-> "variants" \in DOMAIN obj,
     variants        |-> IF "variants" \in DOMAIN obj THEN obj.variants ELSE <<>>]

\* handleExportData that writes the catalog only
handleExportData_StocksOnly ==
    [stocks |-> [i \in DOMAIN stocks |-> StringifyItem(stocks[i])]]

\* handleExportData: the text of the backup file, JSON.stringify of
\* {stocks, sales, exportDate, version}; the import reads neither the date
\* nor the version
handleExportData ==
    [stocks |-> [i \in DOMAIN stocks |-> StringifyItem(stocks[i])],
     sales  |-> sales]

\* handleFileImport: JSON.parse of a backup file written by handleExportData
ReadBackup(json) ==
    [parses        |-> TRUE,
     stocksIsArray |-> "stocks" \in DOMAIN json,
     stocks        |-> IF "stocks" \in DOMAIN json
                       THEN [i \in DOMAIN json.stocks |-> ParseItem(json.stocks[i])]
                       ELSE <<>>,
     hasSales      |-> "sales" \in DOMAIN json,
     sales         |-> IF "sales" \in DOMAIN json THEN json.sales ELSE <<>>]

ImportDocs == {BackupDoc, EmptyDoc, MalformedDoc, CorruptDoc}

\* handleFileImport that adds the document's records to the present ledger
handleFileImport_Merges(data) ==
    /\ ~isSaleModalOpen
    /\ nextStockId >= 1 /\ nextVariantId >= 1 /\ nextSaleId >= 1
    /\ IF ~data.parses
       THEN /\ lastAlert' = "import failed: file corrupt"
            /\ UNCHANGED <<stocks, sales, storageVars>>
       ELSE IF ~data.stocksIsArray
       THEN /\ lastAlert' = "file format error"
            /\ UNCHANGED <<stocks, sales, storageVars>>
       ELSE /\ stocks' = data.stocks
            /\ sales' = (IF data.hasSales THEN data.sales ELSE <<>>) \o sales
            /\ lastAlert' = "restored"
            /\ PersistenceEffects(TRUE, TRUE)
    /\ UNCHANGED <<dialogVars, modalVars, idVars, envVars>>

\* handleFileImport: reader.onload with the file's text, the import confirmed.
\* The documents are backups of this store, so they exist once the ids they
\* hold have been handed out.
handleFileImport(data) ==
    /\ ~isSaleModalOpen
    /\ nextStockId >= 1 /\ nextVariantId >= 1 /\ nextSaleId >= 1
    /\ IF ~data.parses
       THEN /\ lastAlert' = "import failed: file corrupt"
            /\ UNCHANGED <<stocks, sales, storageVars>>
       ELSE IF ~data.stocksIsArray
       THEN /\ lastAlert' = "file format error"
            /\ UNCHANGED <<stocks, sales, storageVars>>
       ELSE /\ stocks' = data.stocks
            /\ sales' = IF data.hasSales THEN data.sales ELSE <<>>
            /\ lastAlert' = "restored"
            /\ PersistenceEffects(TRUE, TRUE)
    /\ UNCHANGED <<dialogVars, modalVars, idVars, envVars>>

\* handleResetData, confirmed: removeItem on both keys, then both states set
\* to [] and saved by the effects (a key that cannot be written stays removed,
\* which loads as [])
handleResetData ==
    /\ ~isSaleModalOpen
    /\ stocks' = <<>>
    /\ sales' = <<>>
    /\ storedStocks' = <<>>
    /\ storedSales' = <<>>
    /\ failedWrites' = failedWrites
    /\ lastAlert' = "data cleared"
    /\ navigateTo("dashboard")
    /\ UNCHANGED <<dialogVars, modalVars, idVars, envVars>>

\* The page is closed and opened again: the useState initialisers read both
\* keys; every component starts from its initial state
Reload ==
    /\ restarts < MaxRestarts
    /\ restarts' = restarts + 1
    /\ stocks' = storedStocks
    /\ sales' = storedSales
    /\ selectedStockForSale' = NoStock
    /\ isSaleModalOpen' = FALSE
    /\ error' = NoError
    /\ isCompleted' = FALSE
    /\ lastRecords' = <<>>
    /\ lastAlert' = NoAlert
    /\ view' = "dashboard"
    /\ stockToEdit' = NoStock
    /\ history' = ReplaceState(history, DashboardEntry)
    /\ UNCHANGED <<idVars, storageVars, storageTight, clockVars>>

\* Environment: the origin's storage fills up or is freed
QuotaChange ==
    /\ storageTight' = ~storageTight
    /\ UNCHANGED <<stocks, sales, dialogVars, modalVars, idVars, storageVars, restarts,
                   lastAlert, clockVars, navVars>>

(***************************************************************************)
(* Specifications                                                          *)
(***************************************************************************)
NewStockStep ==
    /\ \E unitCost \in Costs, inputs \in SeqsOf(RowInputs, 1, MaxRows) :
           SubmitNewStock(NoCategory, unitCost, inputs)
    /\ UNCHANGED navVars

EditStockStep ==
    /\ \E stock \in Range(stocks), unitCost \in Costs :
           \E kept \in SUBSET DOMAIN VariantsOf(stock) :
               \E retyped \in RetypedRows(VariantsOf(stock), kept),
                  added \in SeqsOf(RowInputs, 0, MaxRows) :
                   SubmitEditedStock(stock, stock.category, unitCost, retyped, added)
    /\ UNCHANGED navVars

DeleteStep ==
    /\ \E stock \in Range(stocks) : handleDeleteStock(stock.id)
    /\ UNCHANGED navVars

OpenStep ==
    /\ \E stock \in Range(stocks) : openSaleModal(stock)
    /\ UNCHANGED navVars

CloseStep == closeSaleModal /\ UNCHANGED navVars

SubmitStep ==
    /\ isSaleModalOpen
    /\ \E entries \in EntryInputs(selectedStockForSale) : handleSubmit(entries)
    /\ UNCHANGED navVars

RefundStep ==
    /\ \E sale \in Range(sales) : handleRefund(sale)
    /\ UNCHANGED navVars

ImportStep ==
    /\ \E data \in ImportDocs : handleFileImport(data)
    /\ UNCHANGED navVars

\* The present state is exported and the file is imported back
ExportImportStep ==
    /\ handleFileImport(ReadBackup(handleExportData))
    /\ UNCHANGED navVars

Next ==
    \/ NewStockStep
    \/ EditStockStep
    \/ DeleteStep
    \/ OpenStep
    \/ CloseStep
    \/ SubmitStep
    \/ RefundStep
    \/ ImportStep
    \/ ExportImportStep
    \/ handleResetData

\* The application with storage that always accepts the writes
Spec == Init /\ [][Next]_vars

\* The first purchase only
FirstStockStep == nextStockId = 0 /\ NewStockStep

\* Buying one lot, selling and refunding with storage that can run out of
\* quota, and restarts of the page
NextPersist ==
    \/ FirstStockStep
    \/ OpenStep
    \/ CloseStep
    \/ SubmitStep
    \/ RefundStep
    \/ QuotaChange
    \/ Reload

SpecPersist == Init /\ [][NextPersist]_vars

\* Buying one lot, selling from it and refunding
NextSale ==
    \/ FirstStockStep
    \/ OpenStep
    \/ CloseStep
    \/ SubmitStep
    \/ RefundStep

SpecSale == Init /\ [][NextSale]_vars

RefundTwiceStep ==
    /\ \E sale \in Range(sales) : handleRefundTwice(sale)
    /\ UNCHANGED navVars

\* Buying one lot, selling from it and refunding, where the refund of a record
\* can be invoked twice
NextRefundTwice ==
    \/ FirstStockStep
    \/ OpenStep
    \/ CloseStep
    \/ SubmitStep
    \/ RefundStep
    \/ RefundTwiceStep

SpecRefundTwice == Init /\ [][NextRefundTwice]_vars

\* A purchase of one row of MaxQty units with the category typed in or left
\* empty
NewCategorizedStep ==
    /\ \E category \in Categories \cup {NoCategory}, unitCost \in Costs,
          inputs \in SeqsOf(RowInputs, 1, 1) :
           /\ inputs[1].quantity = MaxQty
           /\ SubmitNewStock(category, unitCost, inputs)
    /\ UNCHANGED navVars

\* An edit that retypes the category and nothing else
RecategorizeStep ==
    /\ \E stock \in Range(stocks) :
           \E category \in (Categories \cup {NoCategory}) \ {stock.category} :
               SubmitEditedStock(stock, category, stock.unitCost,
                                 [i \in DOMAIN VariantsOf(stock) |->
                                     [size     |-> VariantsOf(stock)[i].size,
                                      color    |-> VariantsOf(stock)[i].color,
                                      quantity |-> VariantsOf(stock)[i].quantity]],
                                 <<>>)
    /\ UNCHANGED navVars

\* Buying lots in categories, selling, refunding, moving an item to another
\* category and deleting it
NextCharts ==
    \/ NewCategorizedStep
    \/ RecategorizeStep
    \/ DeleteStep
    \/ OpenStep
    \/ CloseStep
    \/ SubmitStep
    \/ RefundStep

SpecCharts == Init /\ [][NextCharts]_vars

\* A tab of the bottom bar
NavigateStep ==
    /\ ~isSaleModalOpen
    /\ \E newView \in Views \ {"add-stock", view} : navigateTo(newView)
    /\ UNCHANGED <<stocks, sales, dialogVars, modalVars, idVars, storageVars, envVars,
                   lastAlert>>

\* The add button: setStockToEdit(undefined); navigateTo('add-stock')
AddRequestStep ==
    /\ ~isSaleModalOpen
    /\ stockToEdit' = NoStock
    /\ IF view # "add-stock"
       THEN /\ Len(history) < MaxHistory
            /\ history' = PushState(history, [view |-> "add-stock"])
            /\ view' = "add-stock"
       ELSE UNCHANGED <<view, history>>
    /\ UNCHANGED <<stocks, sales, dialogVars, modalVars, idVars, storageVars, envVars,
                   lastAlert>>

\* The edit button of an item on the inventory page
EditRequestStep ==
    /\ ~isSaleModalOpen
    /\ view = "inventory"
    /\ \E stock \in Range(stocks) : handleEditStockRequest(stock)
    /\ UNCHANGED <<stocks, sales, dialogVars, modalVars, idVars, storageVars, envVars,
                   lastAlert>>

\* The stock form of a new item submitted on its page with one row;
\* handleAddStock ends with window.history.back()
PageNewStockStep ==
    /\ view = "add-stock"
    /\ stockToEdit = NoStock
    /\ \E unitCost \in Costs, inputs \in SeqsOf(RowInputs, 1, 1) :
           SubmitNewStock(NoCategory, unitCost, inputs)
    /\ IF stocks' # stocks THEN historyBack ELSE UNCHANGED navVars

\* The stock form of the item being edited submitted with another category;
\* handleUpdateStock ends with setStockToEdit(undefined) and
\* window.history.back()
PageEditStockStep ==
    /\ view = "add-stock"
    /\ stockToEdit # NoStock
    /\ \E category \in (Categories \cup {NoCategory}) \ {stockToEdit.category} :
           SubmitEditedStock(stockToEdit, category, stockToEdit.unitCost,
                             [i \in DOMAIN VariantsOf(stockToEdit) |->
                                 [size     |-> VariantsOf(stockToEdit)[i].size,
                                  color    |-> VariantsOf(stockToEdit)[i].color,
                                  quantity |-> VariantsOf(stockToEdit)[i].quantity]],
                             <<>>)
    /\ IF stocks' # stocks
       THEN /\ Len(history) > 1
            /\ history' = SubSeq(history, 1, Len(history) - 1)
            /\ view' = (IF history[Len(history) - 1].view # NoView
                        THEN history[Len(history) - 1].view ELSE "dashboard")
            /\ stockToEdit' = NoStock
       ELSE UNCHANGED navVars

\* The sell button of an item on the inventory page: openSaleModal pushes
\* { modal: 'sale' }, and the navigation effect, run again because
\* isSaleModalOpen changed, replaces it with { view: 'dashboard' }
PageOpenStep ==
    /\ view = "inventory"
    /\ Len(history) < MaxHistory
    /\ \E stock \in Range(stocks) : openSaleModal(stock)
    /\ history' = ReplaceState(PushState(history, ModalEntry), DashboardEntry)
    /\ UNCHANGED <<view, stockToEdit>>

\* The back button, or closeSaleModal (window.history.back()) with the dialog
\* open
BackStep ==
    /\ historyBack
    /\ IF isSaleModalOpen
       THEN error' = NoError /\ isCompleted' = FALSE /\ lastRecords' = <<>>
       ELSE UNCHANGED modalVars
    /\ lastAlert' = NoAlert
    /\ UNCHANGED <<stocks, sales, idVars, storageVars, envVars>>

\* Going through the pages, buying, editing and opening the sale dialog
NextNav ==
    \/ NavigateStep
    \/ AddRequestStep
    \/ EditRequestStep
    \/ PageNewStockStep
    \/ PageEditStockStep
    \/ PageOpenStep
    \/ SubmitStep
    \/ BackStep

SpecNav == Init /\ [][NextNav]_vars

\* Time passes
Tick ==
    /\ clock < MaxClock
    /\ clock' = clock + 1
    /\ UNCHANGED <<stocks, sales, dialogVars, modalVars, idVars, storageVars,
                   storageTight, restarts, lastAlert, timezoneOffset, navVars>>

\* A device in any zone from UTC-12:00 to UTC+12:00
InitToday ==
    /\ InitApp
    /\ clock = 0
    /\ timezoneOffset \in -MaxOffset .. MaxOffset

\* The first purchase, of one row of MaxQty units
FirstLotStep ==
    /\ nextStockId = 0
    /\ \E unitCost \in Costs, inputs \in SeqsOf(RowInputs, 1, 1) :
           /\ inputs[1].quantity = MaxQty
           /\ SubmitNewStock(NoCategory, unitCost, inputs)
    /\ UNCHANGED navVars

\* Buying one lot and selling from it while the days go by
NextToday ==
    \/ FirstLotStep
    \/ OpenStep
    \/ CloseStep
    \/ SubmitStep
    \/ Tick

SpecToday == InitToday /\ [][NextToday]_vars

(***************************************************************************)
(* App: dashboard statistics (useMemo over [stocks, sales])                *)
(***************************************************************************)
RECURSIVE totalInventoryCount(_)
\* stocks.reduce((sum, item) => sum + item.currentQuantity, 0)
totalInventoryCount(list) ==
    IF list = <<>> THEN 0
    ELSE totalInventoryCount(SubSeq(list, 1, Len(list) - 1))
             + list[Len(list)].currentQuantity

RECURSIVE totalInventoryValue(_)
\* stocks.reduce((sum, item) => sum + (item.currentQuantity * item.unitCost), 0)
totalInventoryValue(list) ==
    IF list = <<>> THEN 0
    ELSE totalInventoryValue(SubSeq(list, 1, Len(list) - 1))
             + list[Len(list)].currentQuantity * list[Len(list)].unitCost

RECURSIVE totalRevenue(_)
\* sales.reduce((sum, item) => sum + item.totalRevenue, 0)
totalRevenue(list) ==
    IF list = <<>> THEN 0
    ELSE totalRevenue(SubSeq(list, 1, Len(list) - 1)) + list[Len(list)].totalRevenue

RECURSIVE totalProfit_OfRevenue(_)
\* totalProfit that adds up what was cashed
totalProfit_OfRevenue(list) ==
    IF list = <<>> THEN 0
    ELSE totalProfit_OfRevenue(SubSeq(list, 1, Len(list) - 1))
             + list[Len(list)].totalRevenue

RECURSIVE totalProfit(_)
\* sales.reduce((sum, item) => sum + item.profit, 0)
totalProfit(list) ==
    IF list = <<>> THEN 0
    ELSE totalProfit(SubSeq(list, 1, Len(list) - 1)) + list[Len(list)].profit

\* `${d.getFullYear()}-${d.getMonth()}-${d.getDate()}`
DateStr(t, offset) == <<getFullYear(t, offset), getMonth(t, offset), getDate(t, offset)>>

\* sales.filter(s => sDateStr === todayStr).length
salesToday(list, t, offset) ==
    Len(SelectSeq(list, LAMBDA s :
            DateStr(NewDate(s.saleDate), offset) = DateStr(t, offset)))

\* the DashboardStats of a snapshot
statsOf(stockList, saleList) ==
    [totalInventoryCount |-> totalInventoryCount(stockList),
     totalInventoryValue |-> totalInventoryValue(stockList),
     totalRevenue        |-> totalRevenue(saleList),
     totalProfit         |-> totalProfit(saleList),
     salesToday          |-> salesToday(saleList, clock, timezoneOffset)]

stats == statsOf(stocks, sales)

(***************************************************************************)
(* Dashboard: charts (useMemo over [sales, stocks])                        *)
(***************************************************************************)
\* The bucket of the sales without a category
Uncategorized == "uncategorized"

\* CategoryOf with a bucket of its own for the items that were deleted
CategoryOf_Deleted(stockList, sale) ==
    LET stock == FindStock(stockList, sale.stockId)
    IN  IF stock = <<>> THEN "deleted item"
        ELSE IF stock[1].category # NoCategory THEN stock[1].category
        ELSE Uncategorized

\* categoryData: stock?.category || uncategorized, with the catalog as it is
\* when the chart is computed
CategoryOf(stockList, sale) ==
    LET stock == FindStock(stockList, sale.stockId)
    IN  IF stock # <<>> /\ stock[1].category # NoCategory
        THEN stock[1].category
        ELSE Uncategorized

\* categoryData: data[cat] = (data[cat] || 0) + sale.profit; the keys of an
\* object keep the order in which they were first written
AddProfit(data, cat, profit) ==
    IF \E i \in DOMAIN data : data[i].name = cat
    THEN [i \in DOMAIN data |->
             IF data[i].name = cat
             THEN [name |-> cat, profit |-> data[i].profit + profit]
             ELSE data[i]]
    ELSE Append(data, [name |-> cat, profit |-> profit])

RECURSIVE ProfitByCategory(_, _)
\* categoryData: sales.forEach(...), then Object.entries(data).map(...)
ProfitByCategory(saleList, stockList) ==
    IF saleList = <<>> THEN <<>>
    ELSE LET sale == saleList[Len(saleList)]
         IN  AddProfit(ProfitByCategory(SubSeq(saleList, 1, Len(saleList) - 1),
                                        stockList),
                       CategoryOf(stockList, sale), sale.profit)

\* One step of the stable sort: e goes behind the entries that earn as much
InsertByProfit(sorted, e) ==
    LET k == Cardinality({i \in DOMAIN sorted : sorted[i].profit >= e.profit})
    IN  SubSeq(sorted, 1, k) \o <<e>> \o SubSeq(sorted, k + 1, Len(sorted))

RECURSIVE SortByProfit(_)
\* categoryData: .sort((a, b) => b.profit - a.profit)
SortByProfit(entries) ==
    IF entries = <<>> THEN <<>>
    ELSE InsertByProfit(SortByProfit(SubSeq(entries, 1, Len(entries) - 1)),
                        entries[Len(entries)])

\* Dashboard.categoryData
categoryDataOf(saleList, stockList) ==
    SortByProfit(ProfitByCategory(saleList, stockList))

categoryData == categoryDataOf(sales, stocks)

\* trendData: `${d.getFullYear()}-${month}-${day}`, the month counted from 1
DateKey(t, offset) ==
    <<getFullYear(t, offset), getMonth(t, offset) + 1, getDate(t, offset)>>

RECURSIVE ProfitByDate(_, _)
\* trendData: profitByDate[localDateKey] = (profitByDate[localDateKey] || 0)
\*                                             + sale.profit
ProfitByDate(saleList, offset) ==
    IF saleList = <<>> THEN <<>>
    ELSE LET sale == saleList[Len(saleList)]
         IN  AddProfit(ProfitByDate(SubSeq(saleList, 1, Len(saleList) - 1), offset),
                       DateKey(NewDate(sale.saleDate), offset), sale.profit)

\* trendData: profitByDate[dateKey] || 0
ProfitOn(profitByDate, dateKey) ==
    LET hit == Find(profitByDate,
                    {i \in DOMAIN profitByDate : profitByDate[i].name = dateKey})
    IN  IF hit # <<>> THEN hit[1].profit ELSE 0

\* d.setDate(d.getDate() - i): the same local time i days earlier
DaysBefore(t, i) == t - i * QuartersPerDay

\* trendData whose window ends yesterday
trendDataOf_EndsYesterday(saleList, t, offset) ==
    LET profitByDate == ProfitByDate(saleList, offset)
    IN  [k \in 1 .. TrendDays |->
            LET d == DaysBefore(t, TrendDays - k + 1)
            IN  [name     |-> <<getMonth(d, offset) + 1, getDate(d, offset)>>,
                 fullDate |-> DateKey(d, offset),
                 profit   |-> ProfitOn(profitByDate, DateKey(d, offset))]]

\* Dashboard.trendData: for (let i = 6; i >= 0; i--) result.push({...})
trendDataOf(saleList, t, offset) ==
    LET profitByDate == ProfitByDate(saleList, offset)
    IN  [k \in 1 .. TrendDays |->
            LET d == DaysBefore(t, TrendDays - k)
            IN  [name     |-> <<getMonth(d, offset) + 1, getDate(d, offset)>>,
                 fullDate |-> DateKey(d, offset),
                 profit   |-> ProfitOn(profitByDate, DateKey(d, offset))]]

trendData == trendDataOf(sales, clock, timezoneOffset)

(***************************************************************************)
(* Properties                                                              *)
(***************************************************************************)

RECURSIVE SoldOf(_, _)
\* The units the records sell of variant vId
SoldOf(records, vId) ==
    IF records = <<>> THEN 0
    ELSE (IF Head(records).variantId = vId THEN Head(records).quantitySold ELSE 0)
         + SoldOf(Tail(records), vId)

\* The receipt of a sale is on screen: selectedStockForSale is the item as it
\* was validated, lastRecords the records just confirmed
SaleJustConfirmed == isSaleModalOpen /\ isCompleted

\* The catalog's entry for the item with this id (which exists)
ItemOf(list, id) == FindStock(list, id)[1]

\* The quantity of the variant with this id in an item, 0 when it has none
QuantityOf(item, vId) ==
    LET variant == FindVariant(VariantsOf(item), vId)
    IN  IF variant = <<>> THEN 0 ELSE variant[1].quantity

\* C1: in every reachable state, every stock item's currentQuantity equals the
\* sum of the quantities of its variants.
C1_CurrentQuantityIsVariantSum ==
    \A item \in Range(stocks) : item.currentQuantity = SumQuantity(VariantsOf(item))

\* A refund has just restored stock, and a sale is still in the ledger
C1_Witness ==
    /\ lastAlert = "refunded, stock restored"
    /\ sales # <<>>
    /\ \E item \in Range(stocks) : item.currentQuantity > 0

\* C2: a sale rejected for insufficient stock applies no line: the step that
\* sets the dialog's "insufficient stock" message leaves the catalog and the
\* ledger as they were.
C2_RejectedSaleAppliesNothing ==
    [][(isSaleModalOpen /\ isSaleModalOpen' /\ error' = InsufficientStock)
          => (stocks' = stocks /\ sales' = sales)]_vars

\* A sale has been rejected for insufficient stock on an item in stock
C2_Witness ==
    /\ isSaleModalOpen
    /\ error = InsufficientStock
    /\ ~isCompleted
    /\ selectedStockForSale.currentQuantity > 0

\* C3: a sale is accepted only if every line kept (quantity > 0, variantId not
\* empty) names a variant of the item and the kept lines of each variant sum
\* to no more than the variant holds.
C3_AcceptedSaleFitsStock ==
    SaleJustConfirmed =>
        \A r \in Range(lastRecords) :
            \E v \in Range(VariantsOf(selectedStockForSale)) :
                /\ v.id = r.variantId
                /\ SoldOf(lastRecords, v.id) <= v.quantity

\* C4: a confirmed sale leaves each variant with its quantity less the SUM of
\* quantitySold over all the sale's records for it, floored at 0, and
\* currentQuantity at the sum over the variants.
C4_SaleSubtractsSumPerVariant ==
    SaleJustConfirmed =>
        LET before == selectedStockForSale
            after == ItemOf(stocks, before.id)
        IN  /\ \A v \in Range(VariantsOf(before)) :
                   QuantityOf(after, v.id)
                       = Max(0, v.quantity - SoldOf(lastRecords, v.id))
            /\ after.currentQuantity = SumQuantity(VariantsOf(after))

\* C5: selling q units of a variant and then refunding that exact record
\* restores the variant's quantity (and, when the sale had that one record,
\* currentQuantity) to the pre-sale value and removes the record.
C5_RefundRestoresPreSale ==
    SaleJustConfirmed =>
        \A r \in Range(lastRecords) :
            LET before == selectedStockForSale
                after == ItemOf(RefundStocks(stocks, r), before.id)
            IN  /\ QuantityOf(after, r.variantId) = QuantityOf(before, r.variantId)
                /\ Len(lastRecords) = 1 => after.currentQuantity = before.currentQuantity
                /\ r \notin Range(RefundSales(sales, r))

\* C6: a refund of a sale whose stock item exists but no longer holds the
\* sale's variant raises the item's currentQuantity by quantitySold and changes
\* no variant, so that currentQuantity then exceeds the sum of the variants.
C6_RefundOfMissingVariantRaisesTotal ==
    [][\A sale \in Range(sales) :
        LET found == FindStock(stocks, sale.stockId)
        IN  (/\ handleRefund(sale)
             /\ found # <<>>
             /\ FindVariant(VariantsOf(found[1]), sale.variantId) = <<>>)
            => LET before == found[1]
                   after == ItemOf(stocks', sale.stockId)
               IN  /\ after.currentQuantity
                          = before.currentQuantity + sale.quantitySold
                   /\ VariantsOf(after) = VariantsOf(before)
                   /\ after.currentQuantity > SumQuantity(VariantsOf(after))]_vars

\* C7: a confirmed refund always removes the refunded record from the ledger,
\* whether or not its stock item exists; when the item has been deleted the
\* refund leaves the catalog unchanged.
C7_RefundRemovesRecord ==
    [][\A sale \in Range(sales) :
        handleRefund(sale)
        => /\ sale \notin Range(sales')
           /\ Len(sales') = Len(sales) - 1
           /\ (FindStock(stocks, sale.stockId) = <<>> => stocks' = stocks)]_vars

C7_Witness ==
    /\ lastAlert = "refunded, item was deleted"
    /\ stocks # <<>>
    /\ sales # <<>>

\* C8: the durable pair is never half-reconciled: a step that changes both the
\* catalog and the ledger (a sale, a refund) leaves the two stored keys either
\* both at the new state or both as they were, also when a write fails.
C8_DurableCopyNeverHalfReconciled ==
    [][(stocks' # stocks /\ sales' # sales /\ restarts' = restarts)
        => \/ (storedStocks' = stocks' /\ storedSales' = sales')
           \/ (storedStocks' = storedStocks /\ storedSales' = storedSales)]_vars

\* C9: editing a stock item (its unitCost in particular) after a sale leaves
\* every field of every existing SaleRecord unchanged.
\* (stated as: no step that changes the ledger is an edit)
C9_EditLeavesRecordsUnchanged == [][sales' # sales => ~EditStockStep]_vars

\* a record whose item now costs something else than when it was sold
C9_Witness ==
    \E r \in Range(sales) :
        LET found == FindStock(stocks, r.stockId)
        IN  /\ found # <<>>
            /\ r.profit # (r.salePricePerUnit - found[1].unitCost) * r.quantitySold

\* An import whose document is accepted (it parses and holds a stocks array)
AcceptedImport ==
    \E data \in ImportDocs :
        data.parses /\ data.stocksIsArray /\ handleFileImport(data)

\* C10 as stated: a record leaves the ledger, or is altered, only through a
\* refund of that exact record; no other operation (add, edit, delete, sale,
\* import, reset) removes or alters it.
C10_RecordLeavesOnlyByRefund ==
    [][\A r \in Range(sales) : r \in Range(sales') \/ handleRefund(r)]_vars

\* C10: a record leaves the ledger, or is altered, only through a refund of
\* that exact record, an accepted import (which replaces the whole ledger) or
\* a reset (which clears it); add, edit, delete and sale keep every record.
C10_RecordLeavesByRefundImportReset ==
    [][\A r \in Range(sales) :
        \/ r \in Range(sales')
        \/ handleRefund(r)
        \/ AcceptedImport
        \/ handleResetData]_vars

\* a new sale was recorded while the ledger holds a record of a deleted item
C10_Witness ==
    /\ Len(sales) = 2
    /\ \E r \in Range(sales) : FindStock(stocks, r.stockId) = <<>>
    /\ \E r \in Range(sales) : FindStock(stocks, r.stockId) # <<>>

\* C11: deleting a stock item does not cascade: the ledger is unchanged (the
\* records of the deleted item stay, their stockId dangling) and every other
\* stock item is unchanged, in its place.
C11_DeleteDoesNotCascade ==
    [][\A stock \in Range(stocks) :
        handleDeleteStock(stock.id)
        => /\ sales' = sales
           /\ stocks' = SelectSeq(stocks, LAMBDA s : s # stock)
           /\ FindStock(stocks', stock.id) = <<>>]_vars

\* the one record of the ledger refers to no item, next to an item that stayed
C11_Witness ==
    /\ Len(sales) = 1
    /\ FindStock(stocks, sales[1].stockId) = <<>>
    /\ stocks # <<>>

\* C12: every record emitted by an accepted sale has totalRevenue =
\* quantitySold * salePricePerUnit and profit = (salePricePerUnit - the item's
\* unitCost at sale time) * quantitySold, and carries the variant's size and
\* color of that time; unitCost 150, one variant of quantity 1 and a sale of
\* 1 unit at 200 give totalRevenue 200, profit 50, variant quantity 0 and
\* currentQuantity 0.
C12_RecordArithmetic ==
    SaleJustConfirmed =>
        LET stock == selectedStockForSale
            after == ItemOf(stocks, stock.id)
        IN  /\ \A r \in Range(lastRecords) :
                LET variant == FindVariant(VariantsOf(stock), r.variantId)
                IN  /\ r \in Range(sales)
                    /\ r.stockId = stock.id
                    /\ r.totalRevenue = r.quantitySold * r.salePricePerUnit
                    /\ r.profit = (r.salePricePerUnit - stock.unitCost) * r.quantitySold
                    /\ variant # <<>>
                    /\ r.size = variant[1].size
                    /\ r.color = variant[1].color
            /\ (/\ stock.unitCost = 150
                 /\ Len(VariantsOf(stock)) = 1
                 /\ stock.variants[1].quantity = 1
                 /\ Len(lastRecords) = 1
                 /\ lastRecords[1].quantitySold = 1
                 /\ lastRecords[1].salePricePerUnit = 200)
                => /\ lastRecords[1].totalRevenue = 200
                   /\ lastRecords[1].profit = 50
                   /\ after.variants[1].quantity = 0
                   /\ after.currentQuantity = 0

\* the sale of the example has just been confirmed
C12_Witness ==
    /\ SaleJustConfirmed
    /\ selectedStockForSale.unitCost = 150
    /\ Len(VariantsOf(selectedStockForSale)) = 1
    /\ selectedStockForSale.variants[1].quantity = 1
    /\ Len(lastRecords) = 1
    /\ lastRecords[1].quantitySold = 1
    /\ lastRecords[1].salePricePerUnit = 200

\* C13: importing the document that an export of the snapshot (stocks, sales)
\* produced, and accepting it, leaves stocks and sales equal to the snapshot:
\* same elements, same field values, same order.
C13_ExportImportRoundTrip ==
    [][ExportImportStep => (stocks' = stocks /\ sales' = sales)]_vars

\* a catalog of two items and a ledger of two records has been restored
C13_Witness ==
    /\ lastAlert = "restored"
    /\ Len(stocks) = 2
    /\ Len(sales) = 2

\* C14: an import of a document that does not parse, or whose `stocks` is
\* missing or not a sequence, is rejected and leaves the catalog and the
\* ledger unchanged; an accepted import replaces both wholesale by the
\* document's contents, the ledger becoming empty when it has no `sales`.
C14_ImportRejectsOrReplaces ==
    [][\A data \in ImportDocs :
        handleFileImport(data)
        => IF data.parses /\ data.stocksIsArray
           THEN /\ stocks' = data.stocks
                /\ sales' = IF data.hasSales THEN data.sales ELSE <<>>
           ELSE /\ stocks' = stocks
                /\ sales' = sales]_vars

\* a document without a stocks array was refused over a catalog and a ledger
C14_Witness ==
    /\ lastAlert = "file format error"
    /\ stocks # <<>>
    /\ sales # <<>>

\* C15: a save that fails (quota exceeded) on either key never changes or
\* rolls back the in-memory stocks and sales: after the step they are what
\* the operation (a purchase, a sale, a refund) produces, and the next
\* operations act on them.
C15_FailedSaveKeepsMemory ==
    [][failedWrites' > failedWrites
        => \/ /\ stocks' # <<>>
              /\ stocks' = AddStock(stocks, stocks'[1])
              /\ sales' = sales
           \/ /\ isCompleted' /\ lastRecords' # <<>>
              /\ stocks' = ConfirmSaleStocks(stocks, lastRecords')
              /\ sales' = ConfirmSaleSales(sales, lastRecords')
           \/ \E sale \in Range(sales) :
                  /\ stocks' = RefundStocks(stocks, sale)
                  /\ sales' = RefundSales(sales, sale)]_vars

\* after a failed write of the catalog the dialog opens on the item as it is
\* in memory, which is not the item the storage holds
C15_Witness ==
    /\ failedWrites = 1
    /\ restarts = 0
    /\ isSaleModalOpen /\ ~isCompleted
    /\ sales # <<>>
    /\ storedSales = sales
    /\ FindStock(stocks, selectedStockForSale.id) = <<selectedStockForSale>>
    /\ FindStock(storedStocks, selectedStockForSale.id) # <<selectedStockForSale>>

\* C16: with non-negative quantities entered in the stock form, no variant
\* quantity and no currentQuantity is negative in any reachable state, also
\* after a sale whose record asks for more than the variant holds (the
\* decrement is clamped at 0).
C16_QuantitiesNeverNegative ==
    \A item \in Range(stocks) :
        /\ item.currentQuantity >= 0
        /\ \A v \in Range(VariantsOf(item)) : v.quantity >= 0

\* a sale was confirmed with a record for more units than the variant held
C16_Witness ==
    /\ SaleJustConfirmed
    /\ \E r \in Range(lastRecords) :
           r.quantitySold > QuantityOf(selectedStockForSale, r.variantId)

\* C17: every stock item of the catalog has totalCost = initialQuantity *
\* unitCost, after any sequence of purchases, edits, sales and refunds.
C17_TotalCostIsInitialTimesUnit ==
    \A item \in Range(stocks) : item.totalCost = item.initialQuantity * item.unitCost

\* C18: an edit keeps the item's id, initialQuantity and purchaseDate,
\* replaces the item in its place (same position, every other item
\* unchanged) and sets currentQuantity to the sum of the submitted variant
\* quantities.
C18_EditKeepsIdentityInPlace ==
    [][(stocks' # stocks /\ EditStockStep)
        => /\ Len(stocks') = Len(stocks)
           /\ \E i \in DOMAIN stocks :
                  /\ stocks'[i].id = stocks[i].id
                  /\ stocks'[i].initialQuantity = stocks[i].initialQuantity
                  /\ stocks'[i].purchaseDate = stocks[i].purchaseDate
                  /\ stocks'[i].currentQuantity = SumQuantity(VariantsOf(stocks'[i]))
                  /\ \A j \in DOMAIN stocks \ {i} : stocks'[j] = stocks[j]]_vars

\* the older of two items was edited when it held less than was first bought
\* (only an edit writes totalCost), and kept its place, day and first quantity
C18_Witness ==
    /\ Len(stocks) = 2
    /\ stocks[2].id < stocks[1].id
    /\ stocks[2].totalCost = stocks[2].currentQuantity * stocks[2].unitCost
    /\ stocks[2].currentQuantity < stocks[2].initialQuantity
    /\ stocks[2].purchaseDate = PurchaseDay

RECURSIVE RevenueOf(_)
\* The revenue of some records: quantity times price of each
RevenueOf(records) ==
    IF records = <<>> THEN 0
    ELSE Head(records).quantitySold * Head(records).salePricePerUnit
             + RevenueOf(Tail(records))

RECURSIVE ProfitOf(_)
\* The profit booked in some records
ProfitOf(records) ==
    IF records = <<>> THEN 0 ELSE Head(records).profit + ProfitOf(Tail(records))

\* C19: the dashboard totals are folds over the present snapshot:
\* totalInventoryCount and totalInventoryValue add currentQuantity and
\* currentQuantity * unitCost of every item, totalRevenue and totalProfit add
\* the records of the ledger.  They are 0 on nothing, a purchase adds the new
\* item's share, a sale adds exactly its records' revenue and profit, a
\* refund takes exactly the refunded record's away, and a step that keeps
\* the ledger keeps both sums.
C19_TotalsAreFolds ==
    [][LET now == stats
           next == statsOf(stocks', sales')
       IN  /\ (stocks = <<>> =>
                   now.totalInventoryCount = 0 /\ now.totalInventoryValue = 0)
           /\ (sales = <<>> => now.totalRevenue = 0 /\ now.totalProfit = 0)
           /\ (Len(stocks) = 1 =>
                   /\ now.totalInventoryCount = stocks[1].currentQuantity
                   /\ now.totalInventoryValue
                          = stocks[1].currentQuantity * stocks[1].unitCost)
           /\ (stocks' # <<>> /\ stocks' = AddStock(stocks, stocks'[1]) =>
                   /\ next.totalInventoryCount
                          = now.totalInventoryCount + stocks'[1].currentQuantity
                   /\ next.totalInventoryValue
                          = now.totalInventoryValue
                            + stocks'[1].currentQuantity * stocks'[1].unitCost)
           /\ (~isCompleted /\ isCompleted' =>
                   /\ next.totalRevenue
                          = now.totalRevenue + RevenueOf(lastRecords')
                   /\ next.totalProfit
                          = now.totalProfit + ProfitOf(lastRecords'))
           /\ \A sale \in Range(sales) :
                  handleRefund(sale) =>
                      /\ next.totalRevenue = now.totalRevenue - sale.totalRevenue
                      /\ next.totalProfit = now.totalProfit - sale.profit
           /\ (sales' = sales =>
                   /\ next.totalRevenue = now.totalRevenue
                   /\ next.totalProfit = now.totalProfit)]_vars

\* one of two confirmed records was refunded: the totals are the other's
C19_Witness ==
    /\ lastAlert = "refunded, stock restored"
    /\ Len(sales) = 1
    /\ stats.totalRevenue = sales[1].totalRevenue
    /\ stats.totalProfit = sales[1].profit
    /\ stats.totalInventoryCount > 0

\* The local calendar day of an instant, counted from the epoch
LocalDay(t) == (t + timezoneOffset) \div QuartersPerDay

C21_EmptySaleRejected ==
    [][/\ (/\ isSaleModalOpen /\ isSaleModalOpen' /\ ~isCompleted
           /\ (error' # EmptySale \/ stocks' # stocks \/ sales' # sales))
          => \A entries \in EntryInputs(selectedStockForSale) :
                 validEntries(entries) = <<>> => ~handleSubmit(entries)
       /\ \A r \in Range(sales') :
              r.quantitySold > 0 /\ r.variantId # EmptyId]_vars

\* a request without a valid line was refused over a ledger that holds a record
C21_Witness ==
    /\ isSaleModalOpen
    /\ error = EmptySale
    /\ ~isCompleted
    /\ sales # <<>>

C24_ProfitByCurrentCategory ==
    LET data == categoryData
        Categorized(s) ==
            {item \in Range(stocks) : item.id = s.stockId /\ item.category # NoCategory}
        BucketOf(s) ==
            IF Categorized(s) # {}
            THEN (CHOOSE item \in Categorized(s) : TRUE).category
            ELSE Uncategorized
    IN  /\ \A i, j \in DOMAIN data : data[i].name = data[j].name => i = j
        /\ \A s \in Range(sales) : \E i \in DOMAIN data : data[i].name = BucketOf(s)
        /\ \A i \in DOMAIN data :
               data[i].profit =
                   ProfitOf(SelectSeq(sales, LAMBDA s : BucketOf(s) = data[i].name))
        /\ ProfitOf(data) = stats.totalProfit

\* the ledger holds a sale of an item in a category and a sale of an item that
\* was deleted, and the chart shows the two buckets
C24_Witness ==
    /\ Len(categoryData) = 2
    /\ \E s \in Range(sales) : FindStock(stocks, s.stockId) = <<>>
    /\ \E s \in Range(sales) :
           /\ FindStock(stocks, s.stockId) # <<>>
           /\ FindStock(stocks, s.stockId)[1].category \in Categories

C26_UnitsConserved ==
    [][/\ \A item \in Range(stocks') :
              item \notin Range(stocks) /\ FindStock(stocks, item.id) = <<>>
              => \A v \in Range(VariantsOf(item)) : SoldOf(sales', v.id) = 0
       /\ \A item \in Range(stocks) :
              FindStock(stocks', item.id) # <<>>
              => \A v \in Range(VariantsOf(item)) :
                     QuantityOf(ItemOf(stocks', item.id), v.id) + SoldOf(sales', v.id)
                         = v.quantity + SoldOf(sales, v.id)]_vars

\* C27: whenever a sale is confirmed, the item the dialog validated against is
\* the catalog's present entry of that item; once a sale has been confirmed
\* from a dialog, the dialog changes neither the catalog nor the ledger again
\* for as long as it stays open, so no second sale is confirmed against the
\* quantities from before the first.
C27_SaleValidatedAgainstCurrentEntry ==
    [][/\ (isSaleModalOpen /\ (sales' # sales \/ stocks' # stocks))
          => /\ ~isCompleted
             /\ isCompleted'
             /\ FindStock(stocks, selectedStockForSale.id) = <<selectedStockForSale>>
       /\ (isSaleModalOpen /\ isCompleted /\ isSaleModalOpen')
          => (stocks' = stocks /\ sales' = sales)]_vars

\* the receipt is on screen over a snapshot that still shows the units just
\* sold, and the ledger has room for another sale
C27_Witness ==
    /\ SaleJustConfirmed
    /\ selectedStockForSale.currentQuantity
           > ItemOf(stocks, selectedStockForSale.id).currentQuantity
    /\ ItemOf(stocks, selectedStockForSale.id).currentQuantity > 0
    /\ nextSaleId < MaxSales

\* C28: a confirmed sale and a refund change nothing but the stock item named
\* by the records' stockId, and of that item nothing but currentQuantity and
\* the quantities of its variants: the other items, the order of the catalog,
\* every other field of the item and the ids, sizes, colors and order of its
\* variants stay as they were.
C28_SaleAndRefundFrame ==
    [][LET OnlyQuantitiesOf(stockId) ==
               /\ Len(stocks') = Len(stocks)
               /\ \A i \in DOMAIN stocks :
                      IF stocks[i].id # stockId
                      THEN stocks'[i] = stocks[i]
                      ELSE /\ [stocks'[i] EXCEPT
                                  !.variants = stocks[i].variants,
                                  !.currentQuantity = stocks[i].currentQuantity]
                                 = stocks[i]
                           /\ Len(stocks'[i].variants) = Len(stocks[i].variants)
                           /\ \A j \in DOMAIN stocks[i].variants :
                                  [stocks'[i].variants[j] EXCEPT
                                      !.quantity = stocks[i].variants[j].quantity]
                                     = stocks[i].variants[j]
       IN  /\ (isSaleModalOpen /\ ~isCompleted /\ isCompleted')
              => OnlyQuantitiesOf(lastRecords'[1].stockId)
           /\ (~isSaleModalOpen /\ lastAlert' \in {"refunded, stock restored",
                                                    "refunded, item was deleted"})
              => \A r \in Range(sales) :
                     r \notin Range(sales') => OnlyQuantitiesOf(r.stockId)]_vars

\* a sale from the second of two items has just been confirmed
C28_Witness ==
    /\ SaleJustConfirmed
    /\ Len(stocks) = 2
    /\ lastRecords[1].stockId = stocks[2].id
    /\ stocks[2].currentQuantity < selectedStockForSale.currentQuantity

\* C29: the stock form submitted (to add or to edit) with a total quantity of
\* 0 is refused and leaves the catalog as it is; so an item has a positive
\* currentQuantity right after it was added or edited, and an item comes to a
\* currentQuantity of 0 by a sale only.
C29_EmptyFormRejected ==
    [][/\ lastAlert' = "add at least one unit" => (stocks' = stocks /\ sales' = sales)
       /\ (~isSaleModalOpen /\ stocks' # stocks)
          => \A unitCost \in Costs, inputs \in SeqsOf(RowInputs, 1, MaxRows) :
                 SumQuantity(inputs) = 0
                 => ~SubmitNewStock(NoCategory, unitCost, inputs)
       /\ (~isSaleModalOpen /\ lastAlert' = NoAlert /\ Len(stocks') = Len(stocks) + 1)
          => stocks'[1].currentQuantity > 0
       /\ (~isSaleModalOpen /\ lastAlert' = NoAlert /\ Len(stocks') = Len(stocks))
          => \A i \in DOMAIN stocks :
                 stocks'[i] # stocks[i] => stocks'[i].currentQuantity > 0
       /\ \A item \in Range(stocks') :
              (/\ item.currentQuantity = 0
               /\ \A old \in Range(stocks) :
                      old.id = item.id => old.currentQuantity # 0)
              => (isSaleModalOpen /\ ~isCompleted /\ isCompleted')]_vars

\* a form with no units was refused while an item of the catalog is sold out
C29_Witness ==
    /\ lastAlert = "add at least one unit"
    /\ \E item \in Range(stocks) : item.currentQuantity = 0

\* C30: the back button serves the dialog first.  With the sale dialog open a
\* back event closes the dialog and clears the selected stock and leaves the
\* page as it is; with no dialog open it shows the view recorded in the
\* history entry it arrives at (the dashboard when the entry records none),
\* and the item being edited is cleared whenever that view is not add-stock.
C30_BackServesDialogFirst ==
    [][Len(history') < Len(history)
          => LET state == history[Len(history) - 1]
             IN  IF isSaleModalOpen
                 THEN /\ ~isSaleModalOpen'
                      /\ selectedStockForSale' = NoStock
                      /\ view' = view
                 ELSE /\ ~isSaleModalOpen'
                      /\ view' = (IF state.view # NoView THEN state.view
                                  ELSE "dashboard")
                      /\ view' # "add-stock" => stockToEdit' = NoStock]_vars

\* the dialog was closed by a back event on the inventory page, whose history
\* entry the navigation effect has rewritten
C30_Witness ==
    /\ ~isSaleModalOpen
    /\ view = "inventory"
    /\ Len(history) > 1
    /\ history[Len(history)] = DashboardEntry

====
